---- MODULE Spec2Model ----
(***************************************************************************)
(* Model of src/amd/compiler/aco_live_var_analysis.cpp: the backward       *)
(* liveness fixpoint (live_var_analysis, process_live_temps_per_block),    *)
(* the incremental demand utilities and the occupancy solver               *)
(* (update_vgpr_sgpr_demand).                                              *)
(*                                                                         *)
(* Indices: block indices are the C++ ones (0-based); instruction,         *)
(* operand and definition positions are TLA+ sequence positions (1-based), *)
(* so C++ idx i is position i+1 here.                                      *)
(***************************************************************************)
EXTENDS Integers, Sequences, FiniteSets, TLC

VARIABLES
    pc,             \* "build" | "run" | "done", and for the solver on its
                    \* own "occ" | "occ_min" | "occ_done" | "occ_trap"
    program,        \* Program: blocks, needs_vcc, progress, wave fields
    lives,          \* live: live_out and register_demand per block
    worklist,       \* std::set<unsigned> worklist
    phi_sgpr_ops,   \* std::vector<uint16_t> phi_sgpr_ops
    new_demand,     \* live_var_analysis's RegisterDemand new_demand
    hist            \* history of the run: step count, per-block scan record

vars == <<pc, program, lives, worklist, phi_sgpr_ops, new_demand, hist>>

----------------------------------------------------------------------------
(* Bounds of the explored programs *)

NumBlocks == 2
NumTemps == 2
MaxAtoms == 3
MaxPreds == 1
MaxOperands == 2
MaxDefs == 1

BlockIds == 0 .. (NumBlocks - 1)
TempIds == 1 .. NumTemps

----------------------------------------------------------------------------
(* Register classes and register demand *)

\* RegClass: bank, size in allocation units, is_linear()
RegClassTable ==
    << [type |-> "sgpr", size |-> 2, linear |-> TRUE],
       [type |-> "vgpr", size |-> 1, linear |-> FALSE],
       [type |-> "sgpr", size |-> 1, linear |-> TRUE],
       [type |-> "vgpr", size |-> 2, linear |-> FALSE],
       [type |-> "vgpr", size |-> 1, linear |-> TRUE] >>

\* program->temp_rc: the class of every temporary id
temp_rc == [t \in TempIds |-> RegClassTable[((t - 1) % Len(RegClassTable)) + 1]]

\* RegisterDemand()
ZeroDemand == [vgpr |-> 0, sgpr |-> 0]

\* RegisterDemand::operator+=(Temp)
DemandAddTemp(d, t) ==
    IF temp_rc[t].type = "sgpr"
    THEN [d EXCEPT !.sgpr = @ + temp_rc[t].size]
    ELSE [d EXCEPT !.vgpr = @ + temp_rc[t].size]

\* RegisterDemand::operator-=(Temp)
DemandSubTemp(d, t) ==
    IF temp_rc[t].type = "sgpr"
    THEN [d EXCEPT !.sgpr = @ - temp_rc[t].size]
    ELSE [d EXCEPT !.vgpr = @ - temp_rc[t].size]

\* RegisterDemand::operator+ / operator-
DemandPlus(a, b) == [vgpr |-> a.vgpr + b.vgpr, sgpr |-> a.sgpr + b.sgpr]
DemandMinus(a, b) == [vgpr |-> a.vgpr - b.vgpr, sgpr |-> a.sgpr - b.sgpr]

Max(a, b) == IF a >= b THEN a ELSE b
Min(a, b) == IF a <= b THEN a ELSE b

\* RegisterDemand::update: pointwise maximum
DemandUpdate(a, b) == [vgpr |-> Max(a.vgpr, b.vgpr), sgpr |-> Max(a.sgpr, b.sgpr)]

RECURSIVE DemandOfSet(_)
\* the loop of lines 91-92: sum of Temp(t, temp_rc[t]) over a set of ids
DemandOfSet(S) ==
    IF S = {} THEN ZeroDemand
    ELSE LET t == CHOOSE x \in S : TRUE
         IN DemandAddTemp(DemandOfSet(S \ {t}), t)

----------------------------------------------------------------------------
(* Operands, definitions, instructions *)

\* Operand::setKill
OperandSetKill(op, flag) ==
    [op EXCEPT !.isKill = flag, !.isFirstKill = IF flag THEN @ ELSE FALSE]

\* Operand::setFirstKill
OperandSetFirstKill(op, flag) ==
    [op EXCEPT !.isFirstKill = flag, !.isKill = IF flag THEN TRUE ELSE @]

\* Definition::setKill
DefinitionSetKill(def, flag) == [def EXCEPT !.isKill = flag]

\* an operand reading temporary t, as the upstream passes create it
TempOperand(t) ==
    [isTemp |-> TRUE, tempId |-> t, isFixed |-> FALSE, physReg |-> "none",
     isLateKill |-> FALSE, isKill |-> FALSE, isFirstKill |-> FALSE]

\* a constant / undefined operand
ConstOperand ==
    [isTemp |-> FALSE, tempId |-> 0, isFixed |-> FALSE, physReg |-> "none",
     isLateKill |-> FALSE, isKill |-> FALSE, isFirstKill |-> FALSE]

\* a definition writing temporary t
TempDefinition(t) ==
    [isTemp |-> TRUE, tempId |-> t, isFixed |-> FALSE, hasHint |-> FALSE,
     physReg |-> "none", isKill |-> FALSE]

\* the definition of a control-mask phi: no temporary, fixed to exec
ExecDefinition ==
    [isTemp |-> FALSE, tempId |-> 0, isFixed |-> TRUE, hasHint |-> FALSE,
     physReg |-> "exec", isKill |-> FALSE]

\* is_phi(insn)
is_phi(insn) == insn.opcode \in {"p_phi", "p_linear_phi"}

RECURSIVE SumDefs(_, _, _)
\* fold of a demand contribution over the definitions selected by keep(def)
SumDefs(defs, k, keepKilled) ==
    IF k > Len(defs) THEN ZeroDemand
    ELSE LET rest == SumDefs(defs, k + 1, keepKilled)
         IN IF defs[k].isTemp /\ (defs[k].isKill = keepKilled)
            THEN DemandAddTemp(rest, defs[k].tempId)
            ELSE rest

RECURSIVE SumFirstKills(_, _, _)
\* fold over operands that are temporaries and first kills (and, with
\* lateOnly, late kills too)
SumFirstKills(ops, k, lateOnly) ==
    IF k > Len(ops) THEN ZeroDemand
    ELSE LET rest == SumFirstKills(ops, k + 1, lateOnly)
         IN IF ops[k].isTemp /\ ops[k].isFirstKill /\ (lateOnly => ops[k].isLateKill)
            THEN DemandAddTemp(rest, ops[k].tempId)
            ELSE rest

\* get_live_changes(instr)
get_live_changes(instr) ==
    DemandMinus(SumDefs(instr.definitions, 1, FALSE),
                SumFirstKills(instr.operands, 1, FALSE))

\* get_temp_registers(instr)
get_temp_registers(instr) ==
    DemandPlus(SumDefs(instr.definitions, 1, TRUE),
               SumFirstKills(instr.operands, 1, TRUE))

\* a faulty variant of get_demand_before: the temporaries of the instruction
\* before are left out
get_demand_before_OmitsBefore(demand, instr, hasBefore, instr_before) ==
    DemandMinus(DemandMinus(demand, get_live_changes(instr)), get_temp_registers(instr))

\* get_demand_before(demand, instr, instr_before); hasBefore is the null test
get_demand_before(demand, instr, hasBefore, instr_before) ==
    LET d1 == DemandMinus(demand, get_live_changes(instr))
        d2 == DemandMinus(d1, get_temp_registers(instr))
    IN IF hasBefore THEN DemandPlus(d2, get_temp_registers(instr_before)) ELSE d2

----------------------------------------------------------------------------
(* process_live_temps_per_block: the backward scan of one block.           *)
(* The scan works on a record s:                                           *)
(*   instructions      block->instructions (flags are written in place)    *)
(*   register_demand   lives.register_demand[block->index]                 *)
(*   live, new_demand, block_register_demand, needs_vcc   the locals       *)
(*   liveAt, demandAt  history: live and new_demand when each snapshot     *)
(*                     was taken                                           *)

\* std::vector::resize(n): keeps the old elements, value-initialises new ones
Resize(seq, n) == [i \in 1 .. n |-> IF i <= Len(seq) THEN seq[i] ELSE ZeroDemand]

\* lines 109-110, 179-180: a definition fixed or hinted to vcc
DefinitionNeedsVcc(definition) ==
    (definition.isFixed \/ definition.hasHint) /\ definition.physReg = "vcc"

\* lines 139-140, 222-223: an operand fixed to vcc
OperandNeedsVcc(operand) == operand.isFixed /\ operand.physReg = "vcc"

\* a faulty variant of KillDefinition: a definition whose register is not
\* live makes the register live
KillDefinition_DeadBecomesLive(s, idx, k) ==
    LET definition == s.instructions[idx].definitions[k]
        temp == definition.tempId
        n == temp \in s.live
    IN IF n
       THEN [s EXCEPT !.live = @ \ {temp},
                      !.new_demand = DemandSubTemp(@, temp),
                      !.instructions[idx].definitions[k] = DefinitionSetKill(@, FALSE)]
       ELSE [s EXCEPT !.live = @ \cup {temp},
                      !.register_demand[idx] = DemandAddTemp(@, temp),
                      !.instructions[idx].definitions[k] = DefinitionSetKill(@, TRUE)]

\* a faulty variant of KillDefinition: the running demand keeps the size of
\* a live definition
KillDefinition_KeepsDemand(s, idx, k) ==
    LET definition == s.instructions[idx].definitions[k]
        temp == definition.tempId
        n == temp \in s.live
    IN IF n
       THEN [s EXCEPT !.live = @ \ {temp},
                      !.instructions[idx].definitions[k] = DefinitionSetKill(@, FALSE)]
       ELSE [s EXCEPT !.register_demand[idx] = DemandAddTemp(@, temp),
                      !.instructions[idx].definitions[k] = DefinitionSetKill(@, TRUE)]

\* a faulty variant of KillDefinition: the size of a dead definition goes
\* into the running demand instead of into the snapshot
KillDefinition_DeadIntoRunning(s, idx, k) ==
    LET definition == s.instructions[idx].definitions[k]
        temp == definition.tempId
        n == temp \in s.live
    IN IF n
       THEN [s EXCEPT !.live = @ \ {temp},
                      !.new_demand = DemandSubTemp(@, temp),
                      !.instructions[idx].definitions[k] = DefinitionSetKill(@, FALSE)]
       ELSE [s EXCEPT !.new_demand = DemandAddTemp(@, temp),
                      !.instructions[idx].definitions[k] = DefinitionSetKill(@, TRUE)]

\* lines 112-121: one register-valued definition of a non-phi instruction
KillDefinition(s, idx, k) ==
    LET definition == s.instructions[idx].definitions[k]
        temp == definition.tempId
        n == temp \in s.live
    IN IF n
       THEN [s EXCEPT !.live = @ \ {temp},
                      !.new_demand = DemandSubTemp(@, temp),
                      !.instructions[idx].definitions[k] = DefinitionSetKill(@, FALSE)]
       ELSE [s EXCEPT !.register_demand[idx] = DemandAddTemp(@, temp),
                      !.instructions[idx].definitions[k] = DefinitionSetKill(@, TRUE)]

RECURSIVE KillLoop(_, _, _)
\* lines 105-122: for (Definition& definition : insn->definitions)
KillLoop(s, idx, k) ==
    IF k > Len(s.instructions[idx].definitions) THEN s
    ELSE LET definition == s.instructions[idx].definitions[k]
         IN IF ~definition.isTemp
            THEN KillLoop(s, idx, k + 1)
            ELSE LET s1 == [s EXCEPT !.needs_vcc = @ \/ DefinitionNeedsVcc(definition)]
                 IN KillLoop(KillDefinition(s1, idx, k), idx, k + 1)

\* a faulty variant of ClearKills: the flags of an earlier pass are kept
ClearKills_Keeps(operands) == operands

\* line 131-132: for (Operand& op : insn->operands) op.setKill(false)
ClearKills(operands) == [j \in 1 .. Len(operands) |-> OperandSetKill(operands[j], FALSE)]

\* a faulty variant of MarkFirstKill: the later operands reading the same
\* temporary are left alone
MarkFirstKill_OnlyFirst(operands, i) ==
    [j \in 1 .. Len(operands) |->
        IF j = i THEN OperandSetFirstKill(operands[j], TRUE) ELSE operands[j]]

\* lines 144-150: the operand at i is the first kill, the later operands
\* reading the same temporary are kills but not first kills
MarkFirstKill(operands, i) ==
    [j \in 1 .. Len(operands) |->
        IF j = i THEN OperandSetFirstKill(operands[j], TRUE)
        ELSE IF j > i /\ operands[j].isTemp /\ operands[j].tempId = operands[i].tempId
        THEN OperandSetKill(OperandSetFirstKill(operands[j], FALSE), TRUE)
        ELSE operands[j]]

\* a faulty variant of GenOperand: the size of a late-kill operand goes into
\* the running demand a second time instead of into the snapshot
GenOperand_LateKillIntoRunning(s, idx, i) ==
    LET operand == s.instructions[idx].operands[i]
        temp == operand.tempId
        inserted == temp \notin s.live
    IN IF inserted
       THEN [s EXCEPT !.live = @ \cup {temp},
                      !.instructions[idx].operands = MarkFirstKill(@, i),
                      !.new_demand =
                          IF operand.isLateKill
                          THEN DemandAddTemp(DemandAddTemp(@, temp), temp)
                          ELSE DemandAddTemp(@, temp)]
       ELSE s

\* lines 141-154: one register-valued operand of a non-phi instruction
GenOperand(s, idx, i) ==
    LET operand == s.instructions[idx].operands[i]
        temp == operand.tempId
        inserted == temp \notin s.live
    IN IF inserted
       THEN [s EXCEPT !.live = @ \cup {temp},
                      !.instructions[idx].operands = MarkFirstKill(@, i),
                      !.register_demand[idx] =
                          IF operand.isLateKill THEN DemandAddTemp(@, temp) ELSE @,
                      !.new_demand = DemandAddTemp(@, temp)]
       ELSE s

RECURSIVE GenLoop(_, _, _)
\* lines 134-155: for (unsigned i = 0; i < insn->operands.size(); ++i)
GenLoop(s, idx, i) ==
    IF i > Len(s.instructions[idx].operands) THEN s
    ELSE LET operand == s.instructions[idx].operands[i]
         IN IF ~operand.isTemp
            THEN GenLoop(s, idx, i + 1)
            ELSE LET s1 == [s EXCEPT !.needs_vcc = @ \/ OperandNeedsVcc(operand)]
                 IN GenLoop(GenOperand(s1, idx, i), idx, i + 1)

\* a faulty variant of Gen: the marker does not add the logical-phi scalar
\* count back
Gen_MarkerAddsNothing(s, idx, phi_sgpr) ==
    IF s.instructions[idx].opcode = "p_logical_end"
    THEN s
    ELSE GenLoop([s EXCEPT !.instructions[idx].operands = ClearKills(@)], idx, 1)

\* lines 124-156: GEN
Gen(s, idx, phi_sgpr) ==
    IF s.instructions[idx].opcode = "p_logical_end"
    THEN [s EXCEPT !.new_demand.sgpr = @ + phi_sgpr]
    ELSE GenLoop([s EXCEPT !.instructions[idx].operands = ClearKills(@)], idx, 1)

\* line 102: the snapshot, and the history of the running state it is taken in
TakeSnapshot(s, idx) ==
    [s EXCEPT !.register_demand[idx] = s.new_demand,
              !.liveAt[idx] = s.live,
              !.demandAt[idx] = s.new_demand]

\* line 158: block_register_demand.update(register_demand[idx])
UpdateBlockDemand(s, idx) ==
    [s EXCEPT !.block_register_demand = DemandUpdate(@, s.register_demand[idx])]

\* lines 102-158: the body of the backward loop for one non-phi instruction
ScanInstruction(s, idx, phi_sgpr) ==
    UpdateBlockDemand(Gen(KillLoop(TakeSnapshot(s, idx), idx, 1), idx, phi_sgpr), idx)

RECURSIVE ScanLoop(_, _, _)
\* lines 97-159: for (idx = size - 1; idx >= 0; idx--), stopping at a phi;
\* the result carries idx, the position the loop stopped at (0: none left)
ScanLoop(s, idx, phi_sgpr) ==
    IF idx < 1 THEN [s EXCEPT !.idx = 0]
    ELSE IF is_phi(s.instructions[idx]) THEN [s EXCEPT !.idx = idx]
    ELSE ScanLoop(ScanInstruction(s, idx, phi_sgpr), idx - 1, phi_sgpr)

RECURSIVE PhiDefLoop(_, _)
\* lines 167-190: handle phi definitions
PhiDefLoop(s, phi_idx) ==
    IF phi_idx < 1 THEN s
    ELSE LET s0 == [s EXCEPT !.register_demand[phi_idx] = s.new_demand]
             definition == s.instructions[phi_idx].definitions[1]
         IN IF ~definition.isTemp
            THEN PhiDefLoop(s0, phi_idx - 1)
            ELSE LET temp == definition.tempId
                     n == temp \in s0.live
                     s1 == [s0 EXCEPT
                              !.needs_vcc = @ \/ DefinitionNeedsVcc(definition),
                              !.live = @ \ {temp},
                              !.instructions[phi_idx].definitions[1] =
                                  DefinitionSetKill(@, ~n)]
                 IN PhiDefLoop(s1, phi_idx - 1)

\* a faulty variant of MergeInto: the predecessor is not enqueued
MergeInto_NeverEnqueues(m, pred_idx, t) ==
    [m EXCEPT !.live_out[pred_idx] = @ \cup {t}]

\* a faulty variant of MergeInto: the predecessor is enqueued even when the
\* register was in its live-out set already
MergeInto_AlwaysEnqueues(m, pred_idx, t) ==
    [m EXCEPT !.live_out[pred_idx] = @ \cup {t},
              !.worklist = @ \cup {pred_idx}]

\* lines 203-205: insert t into a predecessor's live-out set and enqueue
\* the predecessor when the insertion is new
MergeInto(m, pred_idx, t) ==
    LET inserted == t \notin m.live_out[pred_idx]
    IN [m EXCEPT !.live_out[pred_idx] = @ \cup {t},
                 !.worklist = IF inserted THEN @ \cup {pred_idx} ELSE @]

RECURSIVE MergePreds(_, _, _, _)
\* lines 202-206: for (unsigned pred_idx : preds)
MergePreds(m, preds, k, t) ==
    IF k > Len(preds) THEN m
    ELSE MergePreds(MergeInto(m, preds[k], t), preds, k + 1, t)

\* a faulty variant of PredsOfTemp: every register travels along the
\* logical predecessors
PredsOfTemp_LogicalOnly(block, t) == block.logical_preds

\* line 195: the predecessor list a live-in temporary is propagated along
PredsOfTemp(block, t) ==
    IF temp_rc[t].linear THEN block.linear_preds ELSE block.logical_preds

RECURSIVE MergeLiveIns(_, _, _)
\* lines 193-207: for (unsigned t : live), in ascending id order
MergeLiveIns(m, block, todo) ==
    IF todo = {} THEN m
    ELSE LET t == CHOOSE x \in todo : \A y \in todo : x <= y
         IN MergeLiveIns(MergePreds(m, PredsOfTemp(block, t), 1, t), block, todo \ {t})

\* lines 215-217: the predecessor list a phi reads along
PredsOfPhi(block, insn) ==
    IF insn.opcode = "p_phi" THEN block.logical_preds ELSE block.linear_preds

\* a faulty variant of PhiInsert: the predecessor is enqueued even when the
\* operand was in its live-out set already
PhiInsert_AlwaysEnqueues(m, insn, pred, operand) ==
    LET inserted == operand.tempId \notin m.live_out[pred]
        counted == inserted /\ insn.opcode = "p_phi"
                   /\ temp_rc[operand.tempId].type = "sgpr"
    IN [m EXCEPT !.live_out[pred] = @ \cup {operand.tempId},
                 !.worklist = @ \cup {pred},
                 !.phi_sgpr_ops[pred] =
                     IF counted THEN (@ + temp_rc[operand.tempId].size) % 65536 ELSE @,
                 !.counted_temps[pred] = IF counted THEN @ \cup {operand.tempId} ELSE @]

\* lines 225-230: insert a phi operand into its predecessor's live-out set
PhiInsert(m, insn, pred, operand) ==
    LET inserted == operand.tempId \notin m.live_out[pred]
        counted == inserted /\ insn.opcode = "p_phi"
                   /\ temp_rc[operand.tempId].type = "sgpr"
    IN [m EXCEPT !.live_out[pred] = @ \cup {operand.tempId},
                 !.worklist = IF inserted THEN @ \cup {pred} ELSE @,
                 !.phi_sgpr_ops[pred] =
                     IF counted THEN (@ + temp_rc[operand.tempId].size) % 65536 ELSE @,
                 !.counted_temps[pred] = IF counted THEN @ \cup {operand.tempId} ELSE @]

RECURSIVE PhiOperandLoop(_, _, _, _)
\* lines 218-234: for (unsigned i = 0; i < preds.size(); ++i)
PhiOperandLoop(m, block, phi_idx, i) ==
    LET insn == m.instructions[phi_idx]
        preds == PredsOfPhi(block, insn)
    IN IF i > Len(preds) THEN m
       ELSE LET operand == insn.operands[i]
            IN IF ~operand.isTemp
               THEN PhiOperandLoop(m, block, phi_idx, i + 1)
               ELSE LET m1 == [m EXCEPT !.needs_vcc = @ \/ OperandNeedsVcc(operand)]
                        m2 == PhiInsert(m1, insn, preds[i], operand)
                        m3 == [m2 EXCEPT !.instructions[phi_idx].operands[i] =
                                  OperandSetKill(@, operand.tempId \notin m.live)]
                    IN PhiOperandLoop(m3, block, phi_idx, i + 1)

RECURSIVE PhiLoop(_, _, _)
\* lines 210-236: handle phi operands
PhiLoop(m, block, phi_idx) ==
    IF phi_idx < 1 THEN m
    ELSE PhiLoop(PhiOperandLoop(m, block, phi_idx, 1), block, phi_idx - 1)

\* a faulty variant of InitialDemand: the logical-phi scalar count stays in
InitialDemand_KeepsPhiOps(live, phi_sgpr) == DemandOfSet(live)

\* lines 88-93: the running live set and demand at the end of the block
InitialDemand(live, phi_sgpr) ==
    LET d == DemandOfSet(live) IN [d EXCEPT !.sgpr = @ - phi_sgpr]

\* a faulty variant of BlockDemandAfter: the test of line 163 is missing
BlockDemandAfter_Always(progress, old, block_register_demand) == block_register_demand

\* lines 161-164: the value block->register_demand has after the step
BlockDemandAfter(progress, old, block_register_demand) ==
    IF progress = "before_ra" THEN block_register_demand ELSE old

\* lines 83-93: the locals before the backward loop
ScanStart(prog, lv, phis, b) ==
    [instructions |-> prog.blocks[b].instructions,
     register_demand |-> Resize(lv.register_demand[b], Len(prog.blocks[b].instructions)),
     live |-> lv.live_out[b],
     new_demand |-> InitialDemand(lv.live_out[b], phis[b]),
     block_register_demand |-> ZeroDemand,
     needs_vcc |-> prog.needs_vcc,
     liveAt |-> [i \in 1 .. Len(prog.blocks[b].instructions) |-> {}],
     demandAt |-> [i \in 1 .. Len(prog.blocks[b].instructions) |-> ZeroDemand],
     idx |-> Len(prog.blocks[b].instructions)]

\* line 162: block_register_demand.update(new_demand)
LastUpdate(s) == [s EXCEPT !.block_register_demand = DemandUpdate(@, s.new_demand)]

\* lines 167-190 start at the position the backward loop stopped at
PhiDefs(s) == PhiDefLoop(s, s.idx)

\* lines 83-190: the scan of the block's own instructions
ScanBlock(prog, lv, phis, b) ==
    PhiDefs(LastUpdate(ScanLoop(ScanStart(prog, lv, phis, b),
                                Len(prog.blocks[b].instructions), phis[b])))

\* the state lines 192-236 work on; counted_temps records the registers
\* whose size line 230 adds to phi_sgpr_ops
MergeStart(s, lv, wl, phis) ==
    [instructions |-> s.instructions, needs_vcc |-> s.needs_vcc, live |-> s.live,
     live_out |-> lv.live_out, worklist |-> wl, phi_sgpr_ops |-> phis,
     counted_temps |-> [b \in BlockIds |-> {}]]

\* lines 192-236: live-ins and phi operands into the predecessors
MergeBlock(s, block, lv, wl, phis) ==
    PhiLoop(MergeLiveIns(MergeStart(s, lv, wl, phis), block, s.live), block, s.idx)

\* the operands <<instruction, operand>> whose kill flag is set
KillFlags(instructions) ==
    {ij \in (1 .. Len(instructions)) \X (1 .. MaxOperands) :
        /\ ij[2] <= Len(instructions[ij[1]].operands)
        /\ instructions[ij[1]].operands[ij[2]].isKill}

\* what the step leaves behind: s from lines 83-190, m from lines 192-236
StepResult(prog, lv, phis, b, s, m) ==
    [program |-> [prog EXCEPT
                    !.blocks[b].instructions = m.instructions,
                    !.blocks[b].register_demand =
                        BlockDemandAfter(prog.progress, @, s.block_register_demand),
                    !.needs_vcc = m.needs_vcc],
     lives |-> [live_out |-> m.live_out,
                register_demand |-> [lv.register_demand EXCEPT ![b] = s.register_demand]],
     worklist |-> m.worklist,
     phi_sgpr_ops |-> m.phi_sgpr_ops,
     counted_temps |-> m.counted_temps,
     scan |-> [liveAt |-> s.liveAt, demandAt |-> s.demandAt,
               live_in |-> s.live, end_demand |-> s.new_demand,
               first |-> s.idx + 1, live_out_in |-> lv.live_out[b], phi_in |-> phis[b],
               processed |-> TRUE, kills_in |-> KillFlags(prog.blocks[b].instructions)]]

\* lines 192-238 after the scan s
MergeAfter(prog, lv, wl, phis, b, s) ==
    StepResult(prog, lv, phis, b, s, MergeBlock(s, prog.blocks[b], lv, wl, phis))

\* process_live_temps_per_block(program, lives, block, worklist, phi_sgpr_ops)
process_live_temps_per_block(prog, lv, wl, phis, b) ==
    MergeAfter(prog, lv, wl, phis, b, ScanBlock(prog, lv, phis, b))

\* line 225: the insertions the phi at phi_idx calls for
PhiAttempts(instructions, block, phi_idx) ==
    {pt \in BlockIds \X TempIds :
        \E i \in 1 .. Len(PredsOfPhi(block, instructions[phi_idx])) :
            /\ instructions[phi_idx].operands[i].isTemp
            /\ instructions[phi_idx].operands[i].tempId = pt[2]
            /\ PredsOfPhi(block, instructions[phi_idx])[i] = pt[1]}

\* lines 193-236 after the scan s: every insert call of the step
Attempts(s, block) ==
    {pt \in BlockIds \X TempIds :
        \/ /\ pt[2] \in s.live
           /\ \E k \in 1 .. Len(PredsOfTemp(block, pt[2])) :
                 PredsOfTemp(block, pt[2])[k] = pt[1]
        \/ \E phi_idx \in 1 .. s.idx : pt \in PhiAttempts(s.instructions, block, phi_idx)}

\* the insert calls of process_live_temps_per_block for block b when L is
\* the live-out set of b
StepAttempts(prog, lv, phis, b, L) ==
    Attempts(ScanBlock(prog, [lv EXCEPT !.live_out[b] = L], phis, b), prog.blocks[b])

----------------------------------------------------------------------------
(* The occupancy solver: lines 241-361.  C++ unsigned arithmetic is kept:  *)
(* uint16_t values wrap modulo 2^16.                                       *)

\* UINT_MAX, the workgroup size of a shader whose size is unknown, is
\* (unsigned)-1; the code only compares it for equality
UINT_MAX == -1

\* conversion to uint16_t
U16(x) == x % 65536

\* chip_class, ordered as the enum
GFX6 == 6
GFX8 == 8
GFX9 == 9
GFX10 == 10
GFX10_3 == 11

RECURSIVE BitAnd(_, _)
\* a & b on non-negative integers
BitAnd(a, b) ==
    IF a = 0 \/ b = 0 THEN 0
    ELSE (a % 2) * (b % 2) + 2 * BitAnd(a \div 2, b \div 2)

\* a & ~(g - 1) in 32-bit arithmetic, for 0 <= a < 2^31: the bits of a
\* that g - 1 does not have; g = 0 makes g - 1 all ones
AndNotMask(a, g) == IF g = 0 THEN 0 ELSE a - BitAnd(a, g - 1)

\* util/u_math.h align(value, alignment): (value + alignment - 1) & ~(alignment - 1)
align(value, alignment) == AndNotMask(value + alignment - 1, alignment)

\* util/u_math.h ALIGN_NPOT(value, alignment)
ALIGN_NPOT(value, alignment) == ((value + alignment - 1) \div alignment) * alignment

\* util/macros.h DIV_ROUND_UP(a, b)
DIV_ROUND_UP(a, b) == (a + b - 1) \div b

\* calc_waves_per_workgroup(program)
calc_waves_per_workgroup(prog) ==
    align(IF prog.workgroup_size = UINT_MAX THEN prog.wave_size ELSE prog.workgroup_size,
          prog.wave_size) \div prog.wave_size

\* get_extra_sgprs(program)
get_extra_sgprs(prog) ==
    IF prog.chip_class >= GFX10 THEN 0
    ELSE IF prog.chip_class >= GFX8
    THEN IF prog.needs_flat_scr THEN 6
         ELSE IF prog.dev.xnack_enabled THEN 4
         ELSE IF prog.needs_vcc THEN 2
         ELSE 0
    ELSE IF prog.needs_flat_scr THEN 4
         ELSE IF prog.needs_vcc THEN 2
         ELSE 0

\* a faulty variant of get_sgpr_alloc: the reserved registers of line 280
\* are left out
get_sgpr_alloc_NoExtra(prog, addressable_sgprs) ==
    U16(ALIGN_NPOT(Max(U16(addressable_sgprs), prog.dev.sgpr_alloc_granule),
                   prog.dev.sgpr_alloc_granule))

\* get_sgpr_alloc(program, addressable_sgprs)
get_sgpr_alloc(prog, addressable_sgprs) ==
    U16(ALIGN_NPOT(Max(U16(addressable_sgprs + get_extra_sgprs(prog)),
                       prog.dev.sgpr_alloc_granule),
                   prog.dev.sgpr_alloc_granule))

\* get_vgpr_alloc(program, addressable_vgprs)
get_vgpr_alloc(prog, addressable_vgprs) ==
    U16(align(Max(addressable_vgprs, prog.dev.vgpr_alloc_granule),
              prog.dev.vgpr_alloc_granule))

\* round_down(a, b)
round_down(a, b) == a - (a % b)

\* get_addr_sgpr_from_waves(program, waves), waves > 0
get_addr_sgpr_from_waves(prog, waves) ==
    Min(U16(U16(round_down(U16(Min(prog.dev.physical_sgprs \div waves, 128)),
                           prog.dev.sgpr_alloc_granule))
            - get_extra_sgprs(prog)),
        prog.dev.sgpr_limit)

\* get_addr_vgpr_from_waves(program, waves), waves > 0
get_addr_vgpr_from_waves(prog, waves) ==
    Min(U16(U16(AndNotMask(prog.dev.physical_vgprs \div waves,
                           prog.dev.vgpr_alloc_granule))
            - prog.config.num_shared_vgprs \div 2),
        prog.dev.vgpr_limit)

\* lines 316, 323: simd_per_cu_wgp
simd_per_cu_wgp(prog) == prog.dev.simd_per_cu * (IF prog.wgp_mode THEN 2 ELSE 1)

\* calc_min_waves(program): the value of program->min_waves
calc_min_waves(prog) ==
    U16(DIV_ROUND_UP(calc_waves_per_workgroup(prog), simd_per_cu_wgp(prog)))

\* line 322: max_waves_per_simd
max_waves_per_simd(prog) == prog.dev.max_wave64_per_simd * (64 \div prog.wave_size)

\* line 324: lds_limit
lds_limit(prog) == IF prog.wgp_mode THEN prog.dev.lds_limit * 2 ELSE prog.dev.lds_limit

\* lines 327-331: the program does not fit at min_waves
Infeasible(prog, demand) ==
    \/ demand.vgpr > get_addr_vgpr_from_waves(prog, prog.min_waves)
    \/ demand.sgpr > get_addr_sgpr_from_waves(prog, prog.min_waves)

\* lines 335-337: the wave count the register files allow
WavesByRegisters(prog, demand) ==
    Min(U16(prog.dev.physical_sgprs \div get_sgpr_alloc(prog, demand.sgpr)),
        U16(prog.dev.physical_vgprs
            \div U16(get_vgpr_alloc(prog, demand.vgpr)
                     + prog.config.num_shared_vgprs \div 2)))

\* lines 343-347: the LDS limit on workgroups_per_cu_wgp
LdsWorkgroups(prog, workgroups) ==
    IF prog.config.lds_size # 0
    THEN Min(workgroups,
             lds_limit(prog)
             \div align(prog.config.lds_size * prog.dev.lds_encoding_granule,
                        prog.dev.lds_alloc_granule))
    ELSE workgroups

\* lines 348-349: the limit of 16 workgroups before GFX10
CapWorkgroups(prog, workgroups) ==
    IF calc_waves_per_workgroup(prog) > 1 /\ prog.chip_class < GFX10
    THEN Min(workgroups, 16)
    ELSE workgroups

\* lines 341-349: workgroups_per_cu_wgp
workgroups_per_cu_wgp(prog) ==
    CapWorkgroups(prog,
        LdsWorkgroups(prog,
            (max_waves_per_simd(prog) * simd_per_cu_wgp(prog))
            \div calc_waves_per_workgroup(prog)))

\* lines 338-354: the value program->max_waves gets in the feasible branch
MaxWaves(prog) ==
    Min(U16(max_waves_per_simd(prog)),
        U16(DIV_ROUND_UP(workgroups_per_cu_wgp(prog) * calc_waves_per_workgroup(prog),
                         simd_per_cu_wgp(prog))))

\* line 357: the value program->num_waves gets in the feasible branch
NumWaves(prog, demand) == Min(WavesByRegisters(prog, demand), MaxWaves(prog))

\* lines 358-359 with num_waves > 0
Allotment(prog, waves) ==
    [vgpr |-> get_addr_vgpr_from_waves(prog, waves),
     sgpr |-> get_addr_sgpr_from_waves(prog, waves)]

\* lines 358-359 divide by num_waves; with num_waves = 0 the division is
\* undefined: the values a build can leave behind (a trapping build leaves
\* none and is modelled in the action)
DivisionByZeroAllotments(prog, demand) ==
    {ZeroDemand, demand, [vgpr |-> prog.dev.vgpr_limit, sgpr |-> prog.dev.sgpr_limit]}

\* a faulty variant of update_vgpr_sgpr_demand: line 338 is done before the
\* feasibility test
update_vgpr_sgpr_demand_MaxWavesFirst(prog, demand, allot) ==
    IF Infeasible(prog, demand)
    THEN [prog EXCEPT !.num_waves = 0, !.max_reg_demand = demand,
                      !.max_waves = U16(max_waves_per_simd(prog))]
    ELSE [prog EXCEPT !.num_waves = NumWaves(prog, demand),
                      !.max_waves = MaxWaves(prog),
                      !.max_reg_demand = allot]

\* update_vgpr_sgpr_demand(program, new_demand): the program afterwards,
\* allot being the outcome of lines 358-359
update_vgpr_sgpr_demand(prog, demand, allot) ==
    IF Infeasible(prog, demand)
    THEN [prog EXCEPT !.num_waves = 0, !.max_reg_demand = demand]
    ELSE [prog EXCEPT !.num_waves = NumWaves(prog, demand),
                      !.max_waves = MaxWaves(prog),
                      !.max_reg_demand = allot]

\* the outcomes of lines 358-359 for the call
AllotmentOutcomes(prog, demand) ==
    IF Infeasible(prog, demand) THEN {demand}
    ELSE IF NumWaves(prog, demand) = 0 THEN DivisionByZeroAllotments(prog, demand)
    ELSE {Allotment(prog, NumWaves(prog, demand))}

----------------------------------------------------------------------------
(* Device descriptors and shader configurations the solver is run on *)

DeviceInfo(sgprs, sgranule, slimit, vgprs, vgranule, waves64, simds, ldsenc, ldsalloc,
           ldslimit, xnack) ==
    [physical_sgprs |-> sgprs, sgpr_alloc_granule |-> sgranule, sgpr_limit |-> slimit,
     physical_vgprs |-> vgprs, vgpr_alloc_granule |-> vgranule, vgpr_limit |-> 256,
     max_wave64_per_simd |-> waves64, simd_per_cu |-> simds,
     lds_encoding_granule |-> ldsenc, lds_alloc_granule |-> ldsalloc,
     lds_limit |-> ldslimit, xnack_enabled |-> xnack]

Target(chip, wave, dev) == [chip_class |-> chip, wave_size |-> wave, dev |-> dev]

\* the descriptors of the supported generations, per wave size
Targets ==
    { Target(GFX6, 64, DeviceInfo(512, 8, 104, 256, 4, 10, 4, 256, 256, 32768, FALSE)),
      Target(GFX8, 64, DeviceInfo(800, 16, 102, 256, 4, 8, 4, 512, 512, 65536, FALSE)),
      Target(GFX8, 64, DeviceInfo(800, 96, 102, 256, 4, 10, 4, 512, 512, 65536, FALSE)),
      Target(GFX9, 64, DeviceInfo(800, 16, 102, 256, 4, 10, 4, 512, 512, 65536, TRUE)),
      Target(GFX10, 32, DeviceInfo(5120, 128, 108, 1024, 8, 20, 2, 512, 512, 65536, FALSE)),
      Target(GFX10, 64, DeviceInfo(5120, 128, 108, 512, 4, 20, 2, 512, 512, 65536, FALSE)),
      Target(GFX10_3, 32, DeviceInfo(5120, 128, 108, 1024, 16, 16, 2, 512, 1024, 65536, FALSE)),
      Target(GFX10_3, 64, DeviceInfo(5120, 128, 108, 512, 8, 16, 2, 512, 1024, 65536, FALSE)) }

\* the target the liveness runs are compiled for
LiveTarget == Target(GFX8, 64, DeviceInfo(800, 16, 102, 256, 4, 8, 4, 512, 512, 65536, FALSE))

WorkgroupSizes == {UINT_MAX, 64, 192, 1024}

\* config->lds_size, in units of the encoding granule
LdsSizes == {0, 1, 128, 129}

SgprDemands == {0, 1, 15, 16, 17, 94, 96, 100, 102, 104, 106, 108, 109, 128}

VgprDemands == {0, 1, 4, 5, 24, 25, 64, 65, 128, 129, 256, 257}

PeakDemands ==
    {[vgpr |-> v, sgpr |-> g] : v \in {0, 24}, g \in SgprDemands}
    \cup {[vgpr |-> v, sgpr |-> g] : v \in VgprDemands, g \in {0, 16}}

\* the program after calc_min_waves(program)
WithMinWaves(prog) == [prog EXCEPT !.min_waves = calc_min_waves(prog)]

\* what an earlier run of the solver left in the program
Prior == [waves |-> 3, demand |-> [vgpr |-> 84, sgpr |-> 102]]

\* a Program for target with the shader configuration cfg and the blocks
NewProgram(target, cfg, blocks) ==
    [blocks |-> blocks, needs_vcc |-> cfg.needs_vcc, progress |-> "before_ra",
     chip_class |-> target.chip_class, wave_size |-> target.wave_size,
     dev |-> target.dev, workgroup_size |-> cfg.workgroup_size,
     wgp_mode |-> cfg.wgp_mode, needs_flat_scr |-> cfg.needs_flat_scr,
     config |-> [lds_size |-> cfg.lds_size, num_shared_vgprs |-> 0],
     min_waves |-> 0, max_waves |-> Prior.waves, num_waves |-> Prior.waves,
     max_reg_demand |-> Prior.demand]

\* shader configurations: wgp mode exists from GFX10 on, which never needs
\* flat scratch registers (the assertion of line 255)
Configs(target) ==
    [workgroup_size : WorkgroupSizes, lds_size : LdsSizes, needs_vcc : BOOLEAN,
     wgp_mode : IF target.chip_class >= GFX10 THEN BOOLEAN ELSE {FALSE},
     needs_flat_scr : IF target.chip_class >= GFX10 THEN {FALSE} ELSE BOOLEAN]

LiveConfig ==
    [workgroup_size |-> UINT_MAX, lds_size |-> 0, needs_vcc |-> FALSE,
     wgp_mode |-> FALSE, needs_flat_scr |-> FALSE]

----------------------------------------------------------------------------
(* The program under analysis, as the earlier passes build it *)

RECURSIVE AscendingSeq(_)
\* the members of a set of block indices in ascending order
AscendingSeq(S) ==
    IF S = {} THEN <<>>
    ELSE LET m == CHOOSE x \in S : \A y \in S : y <= x
         IN Append(AscendingSeq(S \ {m}), m)

\* predecessor lists of the explored control-flow graphs: the linear
\* predecessors, and logical predecessors that are the same or none
PredChoices ==
    LET lists == {AscendingSeq(S) : S \in {P \in SUBSET BlockIds : Cardinality(P) <= MaxPreds}}
    IN {[linear |-> l, logical |-> l] : l \in lists}
       \cup {[linear |-> l, logical |-> <<>>] : l \in lists}

\* a block without instructions
EmptyBlock(preds) ==
    [instructions |-> <<>>, logical_preds |-> preds.logical,
     linear_preds |-> preds.linear, register_demand |-> ZeroDemand]

NoScan ==
    [liveAt |-> <<>>, demandAt |-> <<>>, live_in |-> {}, end_demand |-> ZeroDemand,
     first |-> 1, live_out_in |-> {}, phi_in |-> 0, processed |-> FALSE,
     kills_in |-> {}]

InSeq(x, seq) == \E i \in 1 .. Len(seq) : seq[i] = x

HasPhi(block) == \E i \in 1 .. Len(block.instructions) : is_phi(block.instructions[i])

OnlyPhis(block) == \A i \in 1 .. Len(block.instructions) : is_phi(block.instructions[i])

\* one more instruction, operand, definition or flag
BuildFrame ==
    /\ pc = "build"
    /\ hist.atoms < MaxAtoms
    /\ hist' = [hist EXCEPT !.atoms = @ + 1]
    /\ UNCHANGED <<pc, lives, worklist, phi_sgpr_ops, new_demand>>

OperandChoices == {ConstOperand} \cup {TempOperand(t) : t \in TempIds}

\* every temporary has at most one definition in the program (SSA)
Defines(insn, t) ==
    \E k \in 1 .. Len(insn.definitions) :
        insn.definitions[k].isTemp /\ insn.definitions[k].tempId = t

Defined(t) ==
    \E b \in BlockIds : \E i \in 1 .. Len(program.blocks[b].instructions) :
        Defines(program.blocks[b].instructions[i], t)

HasLogicalEnd(block) ==
    \E i \in 1 .. Len(block.instructions) : block.instructions[i].opcode = "p_logical_end"

WellFormedNew(b, opcode, definitions) ==
    /\ opcode = "p_logical_end" => ~HasLogicalEnd(program.blocks[b])
    /\ \A k \in 1 .. Len(definitions) :
          definitions[k].isTemp => ~Defined(definitions[k].tempId)

\* a new non-phi instruction at the end of block b
NewInstr(b, opcode, operands, definitions) ==
    /\ BuildFrame
    /\ WellFormedNew(b, opcode, definitions)
    /\ program' = [program EXCEPT !.blocks[b].instructions =
          Append(@, [opcode |-> opcode, operands |-> operands,
                     definitions |-> definitions])]

LastIsOther(block) ==
    /\ Len(block.instructions) > 0
    /\ block.instructions[Len(block.instructions)].opcode = "other"

\* one more operand on the last instruction of block b
AddOperand(b, operand) ==
    /\ BuildFrame
    /\ LastIsOther(program.blocks[b])
    /\ LET n == Len(program.blocks[b].instructions)
       IN /\ Len(program.blocks[b].instructions[n].operands) < MaxOperands
          /\ program' = [program EXCEPT !.blocks[b].instructions[n].operands =
                Append(@, operand)]

\* one more definition on the last instruction of block b
AddDefinition(b, t) ==
    /\ BuildFrame
    /\ LastIsOther(program.blocks[b])
    /\ ~Defined(t)
    /\ LET n == Len(program.blocks[b].instructions)
           defs == program.blocks[b].instructions[n].definitions
       IN /\ Len(defs) < MaxDefs
          /\ program' = [program EXCEPT !.blocks[b].instructions[n].definitions =
                Append(@, TempDefinition(t))]

PhiPreds(b, opcode) ==
    IF opcode = "p_phi" THEN program.blocks[b].logical_preds
    ELSE program.blocks[b].linear_preds

\* a phi at the end of the phis of block b: one operand per predecessor,
\* undefined until SetPhiOperand names a temporary
AddPhi(b, opcode, definition) ==
    /\ BuildFrame
    /\ OnlyPhis(program.blocks[b])
    /\ Len(PhiPreds(b, opcode)) > 0
    /\ WellFormedNew(b, opcode, <<definition>>)
    /\ program' = [program EXCEPT !.blocks[b].instructions =
          Append(@, [opcode |-> opcode,
                     operands |-> [i \in 1 .. Len(PhiPreds(b, opcode)) |-> ConstOperand],
                     definitions |-> <<definition>>])]

\* operand i of the last phi of block b reads temporary t
SetPhiOperand(b, i, t) ==
    /\ BuildFrame
    /\ LET n == Len(program.blocks[b].instructions)
       IN /\ n > 0
          /\ is_phi(program.blocks[b].instructions[n])
          /\ i <= Len(program.blocks[b].instructions[n].operands)
          /\ ~program.blocks[b].instructions[n].operands[i].isTemp
          /\ program' = [program EXCEPT !.blocks[b].instructions[n].operands[i] =
                TempOperand(t)]

\* the last operand of the last instruction of block b is a late kill
MarkLateKill(b) ==
    /\ BuildFrame
    /\ LastIsOther(program.blocks[b])
    /\ LET n == Len(program.blocks[b].instructions)
           k == Len(program.blocks[b].instructions[n].operands)
       IN /\ k > 0
          /\ program.blocks[b].instructions[n].operands[k].isTemp
          /\ ~program.blocks[b].instructions[n].operands[k].isLateKill
          /\ program' = [program EXCEPT
                !.blocks[b].instructions[n].operands[k].isLateKill = TRUE]

CanBeVcc(x) == x.isTemp /\ ~x.isFixed /\ temp_rc[x.tempId].type = "sgpr"

\* the last operand / definition of the last instruction of b is fixed to vcc
MarkVcc(b, what) ==
    /\ BuildFrame
    /\ LET n == Len(program.blocks[b].instructions)
       IN /\ n > 0
          /\ LET insn == program.blocks[b].instructions[n]
                 k == IF what = "operand" THEN Len(insn.operands)
                      ELSE Len(insn.definitions)
             IN /\ k > 0
                /\ IF what = "operand"
                   THEN /\ CanBeVcc(insn.operands[k])
                        /\ program' = [program EXCEPT
                              !.blocks[b].instructions[n].operands[k].isFixed = TRUE,
                              !.blocks[b].instructions[n].operands[k].physReg = "vcc"]
                   ELSE /\ CanBeVcc(insn.definitions[k])
                        /\ program' = [program EXCEPT
                              !.blocks[b].instructions[n].definitions[k].isFixed = TRUE,
                              !.blocks[b].instructions[n].definitions[k].physReg = "vcc"]

Build ==
    \/ \E b \in BlockIds : NewInstr(b, "p_logical_end", <<>>, <<>>)
    \/ \E b \in BlockIds, op \in OperandChoices : NewInstr(b, "other", <<op>>, <<>>)
    \/ \E b \in BlockIds, t \in TempIds : NewInstr(b, "other", <<>>, <<TempDefinition(t)>>)
    \/ \E b \in BlockIds, t \in TempIds : AddOperand(b, TempOperand(t))
    \/ \E b \in BlockIds, t \in TempIds : AddDefinition(b, t)
    \/ \E b \in BlockIds, opcode \in {"p_phi", "p_linear_phi"},
          d \in {ExecDefinition} \cup {TempDefinition(t) : t \in TempIds} :
          AddPhi(b, opcode, d)
    \/ \E b \in BlockIds, i \in 1 .. MaxPreds, t \in TempIds : SetPhiOperand(b, i, t)
    \/ \E b \in BlockIds : MarkLateKill(b)
    \/ \E b \in BlockIds, what \in {"operand", "definition"} : MarkVcc(b, what)

----------------------------------------------------------------------------
(* live_var_analysis *)

\* lines 365-376: the result, the worklist seeded with every block
Start ==
    /\ pc = "build"
    /\ pc' = "run"
    /\ \E progress \in {"before_ra"} :
          program' = [program EXCEPT !.needs_vcc = FALSE, !.progress = progress]
    /\ lives' = [live_out |-> [b \in BlockIds |-> {}],
                 register_demand |-> [b \in BlockIds |-> <<>>]]
    /\ worklist' = BlockIds
    /\ phi_sgpr_ops' = [b \in BlockIds |-> 0]
    /\ new_demand' = ZeroDemand
    /\ UNCHANGED hist

\* the model stops counting iterations here; the loop itself has no such
\* limit, and no run of the model reaches it
MaxSteps == NumBlocks * (NumTemps + 1) + 2

\* line 378: *worklist.rbegin(), the highest pending block index
NextBlock(wl) == CHOOSE b \in wl : \A c \in wl : c <= b

\* lines 381-382: the state after the call for block_idx, r its result
AfterCall(block_idx, r) ==
    /\ program' = r.program
    /\ lives' = r.lives
    /\ worklist' = r.worklist
    /\ phi_sgpr_ops' = r.phi_sgpr_ops
    /\ new_demand' = DemandUpdate(new_demand, r.program.blocks[block_idx].register_demand)
    /\ hist' = [hist EXCEPT !.steps = @ + 1, !.scan[block_idx] = r.scan,
                            !.counted = [b \in BlockIds |-> @[b] \cup r.counted_temps[b]]]

\* lines 379-382 for the block taken from the worklist
CallFor(block_idx) ==
    AfterCall(block_idx,
              process_live_temps_per_block(program, lives, worklist \ {block_idx},
                                           phi_sgpr_ops, block_idx))

\* lines 377-383: one iteration of while (!worklist.empty())
Step ==
    /\ pc = "run"
    /\ worklist # {}
    /\ hist.steps < MaxSteps
    /\ CallFor(NextBlock(worklist))
    /\ UNCHANGED pc

\* lines 385-389: the loop has ended
Finish ==
    /\ pc = "run"
    /\ worklist = {}
    /\ pc' = "done"
    /\ IF program.progress = "before_ra"
       THEN \E allot \in AllotmentOutcomes(program, new_demand) :
               program' = update_vgpr_sgpr_demand(program, new_demand, allot)
       ELSE UNCHANGED program
    /\ UNCHANGED <<lives, worklist, phi_sgpr_ops, new_demand, hist>>

Init ==
    /\ pc = "build"
    /\ \E cfg \in [BlockIds -> PredChoices] :
          program = WithMinWaves(NewProgram(LiveTarget, LiveConfig,
                                            [b \in BlockIds |-> EmptyBlock(cfg[b])]))
    /\ lives = [live_out |-> [b \in BlockIds |-> {}],
                register_demand |-> [b \in BlockIds |-> <<>>]]
    /\ worklist = {}
    /\ phi_sgpr_ops = [b \in BlockIds |-> 0]
    /\ new_demand = ZeroDemand
    /\ hist = [atoms |-> 0, steps |-> 0, scan |-> [b \in BlockIds |-> NoScan],
             counted |-> [b \in BlockIds |-> {}]]

Next == Build \/ Start \/ Step \/ Finish

Spec == Init /\ [][Next]_vars

----------------------------------------------------------------------------
(* The analysis run again after register allocation: the blocks and the    *)
(* program carry what the run before register allocation and the solver    *)
(* left                                                                    *)

\* the program prog as register allocation hands it on
AfterRa(prog) ==
    [prog EXCEPT !.progress = "after_ra",
                 !.blocks = [b \in BlockIds |->
                                [prog.blocks[b] EXCEPT !.register_demand = Prior.demand]]]

RaInit ==
    /\ pc = "build"
    /\ \E cfg \in [BlockIds -> PredChoices] :
          program = AfterRa(WithMinWaves(NewProgram(LiveTarget, LiveConfig,
                                            [b \in BlockIds |-> EmptyBlock(cfg[b])])))
    /\ lives = [live_out |-> [b \in BlockIds |-> {}],
                register_demand |-> [b \in BlockIds |-> <<>>]]
    /\ worklist = {}
    /\ phi_sgpr_ops = [b \in BlockIds |-> 0]
    /\ new_demand = ZeroDemand
    /\ hist = [atoms |-> 0, steps |-> 0, scan |-> [b \in BlockIds |-> NoScan],
             counted |-> [b \in BlockIds |-> {}]]

\* lines 365-376 on a program past register allocation
RaStart ==
    /\ pc = "build"
    /\ pc' = "run"
    /\ program' = [program EXCEPT !.needs_vcc = FALSE]
    /\ lives' = [live_out |-> [b \in BlockIds |-> {}],
                 register_demand |-> [b \in BlockIds |-> <<>>]]
    /\ worklist' = BlockIds
    /\ phi_sgpr_ops' = [b \in BlockIds |-> 0]
    /\ new_demand' = ZeroDemand
    /\ UNCHANGED hist

RaNext == Build \/ RaStart \/ Step \/ Finish

RaSpec == RaInit /\ [][RaNext]_vars

----------------------------------------------------------------------------
(* The analysis on programs drawn whole: per block a phi, up to MaxBody     *)
(* defining or reading instructions and the end-of-logical-region marker    *)

MaxBody == 2

\* an instruction defining t / an instruction reading t
DefInstr(t) == [opcode |-> "other", operands |-> <<>>, definitions |-> <<TempDefinition(t)>>]

UseInstr(t) == [opcode |-> "other", operands |-> <<TempOperand(t)>>, definitions |-> <<>>]

LogicalEnd == [opcode |-> "p_logical_end", operands |-> <<>>, definitions |-> <<>>]

\* a phi of a block with one predecessor, reading t and writing exec
PhiInstr(opcode, t) ==
    [opcode |-> opcode, operands |-> <<TempOperand(t)>>, definitions |-> <<ExecDefinition>>]

\* the instructions of the drawn blocks: a definition of a scalar register
\* or a read of any register
BodyItems ==
    {DefInstr(t) : t \in {t \in TempIds : temp_rc[t].type = "sgpr"}}
        \cup {UseInstr(t) : t \in TempIds}

Bodies == UNION {[1 .. n -> BodyItems] : n \in 0 .. MaxBody}

\* body with the marker at position pos, or without it for pos = 0
WithMarker(body, pos) ==
    IF pos = 0 THEN body
    ELSE SubSeq(body, 1, pos - 1) \o <<LogicalEnd>> \o SubSeq(body, pos, Len(body))

\* no phi, a logical phi reading any register or a linear phi reading a
\* register of a linear class
PhiChoices ==
    {<<>>} \cup {<<PhiInstr("p_phi", t)>> : t \in TempIds}
           \cup {<<PhiInstr("p_linear_phi", t)>> : t \in {t \in TempIds : temp_rc[t].linear}}

DrawnPreds(p) == [linear |-> p, logical |-> p]

\* the control-flow graphs: block 0 before block 1, block 1 looping to
\* itself instead, or block 0 looping to itself before block 1
DrawnCfgs ==
    {[b \in BlockIds |-> DrawnPreds(IF b = 0 THEN p[1] ELSE p[2])] :
        p \in {<< <<>>, <<0>> >>, << <<>>, <<NumBlocks - 1>> >>, << <<0>>, <<0>> >>}}

\* the number of instructions of blocks defining t
DefCount(blocks, t) ==
    Cardinality({bi \in BlockIds \X (1 .. MaxBody + 2) :
                    /\ bi[2] <= Len(blocks[bi[1]].instructions)
                    /\ Defines(blocks[bi[1]].instructions[bi[2]], t)})

DrawnBlock(preds, phi, body, pos) ==
    [instructions |-> phi \o WithMarker(body, pos), logical_preds |-> preds.logical,
     linear_preds |-> preds.linear, register_demand |-> ZeroDemand]

DrawnInit ==
    /\ pc = "build"
    /\ \E cfg \in DrawnCfgs : \E body \in [BlockIds -> Bodies] :
       \E pos \in [BlockIds -> 0 .. MaxBody + 1] : \E phi \in [BlockIds -> PhiChoices] :
          /\ \A b \in BlockIds : pos[b] <= Len(body[b]) + 1
          /\ \A b \in BlockIds : Len(cfg[b].linear) = 0 => phi[b] = <<>>
          /\ LET blocks == [b \in BlockIds |-> DrawnBlock(cfg[b], phi[b], body[b], pos[b])]
             IN /\ \A t \in TempIds : DefCount(blocks, t) <= 1
                /\ program = WithMinWaves(NewProgram(LiveTarget, LiveConfig, blocks))
    /\ lives = [live_out |-> [b \in BlockIds |-> {}],
                register_demand |-> [b \in BlockIds |-> <<>>]]
    /\ worklist = {}
    /\ phi_sgpr_ops = [b \in BlockIds |-> 0]
    /\ new_demand = ZeroDemand
    /\ hist = [atoms |-> 0, steps |-> 0, scan |-> [b \in BlockIds |-> NoScan],
             counted |-> [b \in BlockIds |-> {}]]

DrawnNext == Start \/ Step \/ Finish

DrawnSpec == DrawnInit /\ [][DrawnNext]_vars

----------------------------------------------------------------------------
(* The occupancy solver on its own: calc_min_waves, then                   *)
(* update_vgpr_sgpr_demand with a peak demand                              *)

NoLives == [live_out |-> [b \in BlockIds |-> {}],
            register_demand |-> [b \in BlockIds |-> <<>>]]

NoHist == [atoms |-> 0, steps |-> 0, scan |-> [b \in BlockIds |-> NoScan],
             counted |-> [b \in BlockIds |-> {}]]

OccFrame == UNCHANGED <<lives, worklist, phi_sgpr_ops, hist>>

OccInit ==
    /\ pc = "occ"
    /\ \E target \in Targets : \E cfg \in Configs(target) :
          program = NewProgram(target, cfg, <<>>)
    /\ new_demand \in PeakDemands
    /\ lives = NoLives
    /\ worklist = {}
    /\ phi_sgpr_ops = [b \in BlockIds |-> 0]
    /\ hist = NoHist

\* calc_min_waves(program)
CalcMinWaves ==
    /\ pc = "occ"
    /\ pc' = "occ_min"
    /\ program' = WithMinWaves(program)
    /\ UNCHANGED new_demand
    /\ OccFrame

\* update_vgpr_sgpr_demand(program, new_demand) returns
Update ==
    /\ pc = "occ_min"
    /\ program.min_waves >= 1
    /\ pc' = "occ_done"
    /\ \E allot \in AllotmentOutcomes(program, new_demand) :
          program' = update_vgpr_sgpr_demand(program, new_demand, allot)
    /\ UNCHANGED new_demand
    /\ OccFrame

\* update_vgpr_sgpr_demand(program, new_demand) traps in the division of
\* line 358: num_waves and max_waves are written, max_reg_demand is not
UpdateTraps ==
    /\ pc = "occ_min"
    /\ program.min_waves >= 1
    /\ ~Infeasible(program, new_demand)
    /\ NumWaves(program, new_demand) = 0
    /\ pc' = "occ_trap"
    /\ program' = [program EXCEPT !.num_waves = 0, !.max_waves = MaxWaves(program)]
    /\ UNCHANGED new_demand
    /\ OccFrame

OccNext == CalcMinWaves \/ Update \/ UpdateTraps

OccSpec == OccInit /\ [][OccNext]_vars

----------------------------------------------------------------------------
(* Properties of the occupancy solver, checked under OccSpec *)

\* the call of update_vgpr_sgpr_demand has returned
Returned == pc = "occ_done"

\* the call took the feasible branch (line 334); the limits of lines
\* 327-328 depend on nothing the call writes
Feasible == ~Infeasible(program, new_demand)

\* C8 as stated: in the feasible branch num_waves is at most the device's
\* wavefronts per SIMD and max_reg_demand is at least the peak demand in both
\* components
C8_OccupancyFloor ==
    (Returned /\ Feasible) =>
        /\ program.num_waves <= max_waves_per_simd(program)
        /\ program.max_reg_demand.vgpr >= new_demand.vgpr
        /\ program.max_reg_demand.sgpr >= new_demand.sgpr

\* C8 where the wave count is not zero: the floor holds whenever lines
\* 358-359 do not divide by zero
C8_FloorWithWaves ==
    (Returned /\ Feasible /\ program.num_waves >= 1) =>
        /\ program.num_waves <= max_waves_per_simd(program)
        /\ program.max_reg_demand.vgpr >= new_demand.vgpr
        /\ program.max_reg_demand.sgpr >= new_demand.sgpr

\* C9: when the peak demand exceeds a limit computed at min_waves, the call
\* sets num_waves to 0 and max_reg_demand to the peak demand and leaves
\* max_waves and min_waves as they were
C9_InfeasibleOutputs ==
    [][(pc = "occ_min" /\ Infeasible(program, new_demand)) =>
          /\ pc' = "occ_done"
          /\ program'.num_waves = 0
          /\ program'.max_reg_demand = new_demand
          /\ program'.max_waves = program.max_waves
          /\ program'.min_waves = program.min_waves]_vars

\* the infeasible branch has been taken on a program whose earlier wave
\* counts were not zero
C9_Witness ==
    /\ Returned
    /\ Infeasible(program, new_demand)
    /\ program.num_waves = 0
    /\ program.max_waves = Prior.waves
    /\ program.max_reg_demand = new_demand
    /\ new_demand.vgpr > program.dev.vgpr_limit

\* C10 as stated: a call with min_waves >= 1 and a peak demand within both
\* limits ends with num_waves >= 1, whatever the device, workgroup size and
\* LDS size
C10_WavesWhenFeasible ==
    (pc \in {"occ_done", "occ_trap"} /\ Feasible) => program.num_waves >= 1

----------------------------------------------------------------------------
(* Properties of the liveness analysis, checked under Spec *)

RECURSIVE SumLiveOut(_, _)
\* the number of (block, register) pairs in the live-out sets of blocks 0..b
SumLiveOut(lv, b) ==
    IF b < 0 THEN 0 ELSE Cardinality(lv.live_out[b]) + SumLiveOut(lv, b - 1)

\* what is left to do: two for every (block, register) pair not yet in a
\* live-out set, one for every pending block
Variant ==
    2 * (NumBlocks * NumTemps - SumLiveOut(lives, NumBlocks - 1)) + Cardinality(worklist)

\* C1: live_var_analysis terminates for every program, whatever its
\* predecessor lists: every iteration of the loop strictly lowers Variant,
\* which is never negative, so the worklist is empty after finitely many
\* iterations; and while the worklist is not empty the loop does iterate
C1_Terminates ==
    [][(pc = "run" /\ worklist # {}) =>
          /\ hist'.steps = hist.steps + 1
          /\ Variant' < Variant
          /\ Variant' >= 0
          /\ worklist' # {} => hist'.steps < MaxSteps]_vars

\* the loop has run to an empty worklist after re-processing a block
C1_Witness == pc = "done" /\ worklist = {} /\ hist.steps > NumBlocks

\* live_var_analysis has returned
Done == pc = "done"

Instructions(b) == program.blocks[b].instructions

\* the positions of the non-phi instructions of block b
NonPhis(b) == {i \in 1 .. Len(Instructions(b)) : ~is_phi(Instructions(b)[i])}

\* the registers of instruction insn
TempsOf(insn) ==
    {insn.operands[j].tempId : j \in {j \in 1 .. Len(insn.operands) : insn.operands[j].isTemp}}
    \cup {insn.definitions[k].tempId :
            k \in {k \in 1 .. Len(insn.definitions) : insn.definitions[k].isTemp}}

TempsOfBlock(b) == UNION {TempsOf(Instructions(b)[i]) : i \in 1 .. Len(Instructions(b))}

\* the distinct registers of the program
ProgramTemps == UNION {TempsOfBlock(b) : b \in BlockIds}

\* C2, amended: the loop runs at most blocks x (registers + 1) per-block
\* steps: every block once, and once more for each register its live-out
\* set gains
C2_StepBound == hist.steps <= NumBlocks * (Cardinality(ProgramTemps) + 1)

\* C2 as stated: at most blocks x registers per-block steps
C2_Original == hist.steps <= NumBlocks * Cardinality(ProgramTemps)

\* the loop has ended after more than blocks x registers steps, a block with
\* a register having been processed again
C2_Witness ==
    /\ Done
    /\ ProgramTemps # {}
    /\ hist.steps > NumBlocks * Cardinality(ProgramTemps)

\* the operand positions of insn that read register t
Occurrences(insn, t) ==
    {j \in 1 .. Len(insn.operands) : insn.operands[j].isTemp /\ insn.operands[j].tempId = t}

Lowest(S) == CHOOSE x \in S : \A y \in S : x <= y

\* the operands of insn reading t: the lowest is the only first kill and all
\* are kills
KilledOnce(insn, t) ==
    /\ \A j \in Occurrences(insn, t) :
          /\ insn.operands[j].isKill
          /\ insn.operands[j].isFirstKill <=> j = Lowest(Occurrences(insn, t))

\* instruction i of block b reads t in several operands and t is not live
\* after it in the scan
LastUseOfRepeated(b, i, t) ==
    /\ Instructions(b)[i].opcode # "p_logical_end"
    /\ Cardinality(Occurrences(Instructions(b)[i], t)) >= 2
    /\ t \notin hist.scan[b].liveAt[i]

\* C4: in a non-phi instruction that reads a register in several operands
\* and is its last use, the lowest of these operands is the only one with
\* isFirstKill, and all of them have isKill
C4_FirstKillLowest ==
    Done => \A b \in BlockIds : \A i \in NonPhis(b) : \A t \in TempIds :
               LastUseOfRepeated(b, i, t) => KilledOnce(Instructions(b)[i], t)

\* an instruction reading a register twice has been its last use
C4_Witness ==
    /\ Done
    /\ \E b \in BlockIds : \E i \in NonPhis(b) : \E t \in TempIds :
          /\ LastUseOfRepeated(b, i, t)
          /\ Instructions(b)[i].operands[1].isFirstKill
          /\ Instructions(b)[i].operands[2].isKill

\* the snapshot recorded for instruction i of block b
Snapshot(b, i) == lives.register_demand[b][i]

\* the running demand after instruction i: its snapshot without the
\* registers that only it needs
RunningAfter(b, i) == DemandMinus(Snapshot(b, i), get_temp_registers(Instructions(b)[i]))

\* the running demand before instruction i: the running demand after the
\* instruction before it, or what the scan of the block ended with
RunningBefore(b, i) ==
    IF (i - 1) \in NonPhis(b) THEN RunningAfter(b, i - 1) ELSE hist.scan[b].end_demand

\* what crossing instruction i adds to the scalar demand besides its live
\* changes: the logical-phi scalar count at the end-of-logical-region marker
MarkerShare(b, i) ==
    IF Instructions(b)[i].opcode = "p_logical_end" THEN hist.scan[b].phi_in ELSE 0

\* C5, amended: for every non-phi instruction, the running demand before it
\* plus its get_live_changes equals the running demand after it (plus the
\* logical-phi scalar count at the marker), where the running demand after
\* an instruction is its snapshot minus its get_temp_registers
C5_DemandConservation ==
    Done => \A b \in BlockIds : \A i \in NonPhis(b) :
               DemandPlus(RunningBefore(b, i), get_live_changes(Instructions(b)[i]))
               = [RunningAfter(b, i) EXCEPT !.sgpr = @ + MarkerShare(b, i)]

\* C5 as stated: the snapshot of an instruction plus its get_live_changes is
\* the snapshot of the instruction after it
C5_Original ==
    Done => \A b \in BlockIds : \A i \in NonPhis(b) :
               (i + 1) \in NonPhis(b) =>
                   DemandPlus(Snapshot(b, i), get_live_changes(Instructions(b)[i]))
                   = Snapshot(b, i + 1)

\* an instruction that defines a live register is followed by the
\* instruction that kills it
C5_Witness ==
    /\ Done
    /\ \E b \in BlockIds : \E i \in NonPhis(b) :
          /\ (i + 1) \in NonPhis(b)
          /\ get_live_changes(Instructions(b)[i]) # ZeroDemand
          /\ get_live_changes(Instructions(b)[i + 1]) # ZeroDemand
          /\ Snapshot(b, i) # Snapshot(b, i + 1)

\* the positions of the instructions of block b that define register t
DefPositions(b, t) ==
    {i \in 1 .. Len(Instructions(b)) :
        \E k \in 1 .. Len(Instructions(b)[i].definitions) :
            /\ Instructions(b)[i].definitions[k].isTemp
            /\ Instructions(b)[i].definitions[k].tempId = t}

\* the positions of the non-phi instructions of block b that read register t
ReadPositions(b, t) == {i \in NonPhis(b) : Occurrences(Instructions(b)[i], t) # {}}

\* t is read in block b before any definition of t in b
ReadBeforeDefined(b, t) ==
    \E i \in ReadPositions(b, t) : \A k \in DefPositions(b, t) : i <= k

\* t is live into block b when out is live out of it
LiveInto(b, t, out) ==
    ReadBeforeDefined(b, t) \/ (t \in out /\ DefPositions(b, t) = {})

\* the predecessor list of block b that register t travels along
EdgesOf(b, t) ==
    IF temp_rc[t].linear THEN program.blocks[b].linear_preds
    ELSE program.blocks[b].logical_preds

\* the predecessor list of block b that the phi at position i reads along
EdgesOfPhi(b, i) ==
    IF Instructions(b)[i].opcode = "p_phi" THEN program.blocks[b].logical_preds
    ELSE program.blocks[b].linear_preds

\* t is the operand of a phi of block b that belongs to predecessor p
PhiReadsFrom(b, t, p) ==
    \E i \in 1 .. Len(Instructions(b)) :
        /\ is_phi(Instructions(b)[i])
        /\ \E j \in 1 .. Len(EdgesOfPhi(b, i)) :
              /\ EdgesOfPhi(b, i)[j] = p
              /\ j \in Occurrences(Instructions(b)[i], t)

\* the right-hand side of the liveness equations: the live-out sets that
\* the live-out sets out ask for
Equations(out) ==
    [p \in BlockIds |->
        {t \in TempIds : \E b \in BlockIds :
            \/ LiveInto(b, t, out[b]) /\ InSeq(p, EdgesOf(b, t))
            \/ PhiReadsFrom(b, t, p)}]

\* out solves the equations
Solves(out) == \A p \in BlockIds : out[p] = Equations(out)[p]

\* out holds everything it asks for
Closed(out) == \A p \in BlockIds : Equations(out)[p] \subseteq out[p]

\* out is the least solution: it solves the equations and is contained in
\* every assignment of live-out sets that is closed under them
LeastSolution(out) ==
    /\ Solves(out)
    /\ \A other \in [BlockIds -> SUBSET TempIds] :
          Closed(other) => \A p \in BlockIds : out[p] \subseteq other[p]

\* C3: when live_var_analysis returns, the live-out sets are the least
\* solution of the liveness equations: no register is missing and none is
\* present without a reason
C3_LeastFixpoint == Done => LeastSolution(lives.live_out)

\* a register has travelled through a block that neither reads nor defines
\* it, and a phi operand has reached its predecessor
C3_Witness ==
    /\ Done
    /\ \E b \in BlockIds : \E t \in lives.live_out[b] :
          /\ t \notin TempsOfBlock(b)
          /\ \E c \in BlockIds : t \in lives.live_out[c] /\ DefPositions(c, t) # {}

\* the running live set and the running demand instruction i of block b
\* was reached with, and the running demand it was left with
LiveAfter(b, i) == hist.scan[b].liveAt[i]

DemandAfter(b, i) == hist.scan[b].demandAt[i]

DemandBefore(b, i) ==
    IF (i - 1) \in NonPhis(b) THEN hist.scan[b].demandAt[i - 1]
    ELSE hist.scan[b].end_demand

\* the register-valued definitions of instruction insn
TempDefs(insn) == {k \in 1 .. Len(insn.definitions) : insn.definitions[k].isTemp}

\* the summed sizes of the definitions of insn among positions ks
RECURSIVE SizeOfDefs(_, _)
SizeOfDefs(insn, ks) ==
    IF ks = {} THEN ZeroDemand
    ELSE DemandAddTemp(SizeOfDefs(insn, ks \ {Lowest(ks)}),
                       insn.definitions[Lowest(ks)].tempId)

\* the definitions of instruction i of block b whose register is not in
\* the running live set, and those whose register is
DeadDefs(b, i) ==
    {k \in TempDefs(Instructions(b)[i]) :
        Instructions(b)[i].definitions[k].tempId \notin LiveAfter(b, i)}

LiveDefs(b, i) == TempDefs(Instructions(b)[i]) \ DeadDefs(b, i)

\* the sizes of the registers instruction i of block b makes live, and of
\* those among them it keeps past its end
GenSizes(b, i, lateOnly) == SumFirstKills(Instructions(b)[i].operands, 1, lateOnly)

\* C7: a definition of a non-phi instruction is isKill exactly when its
\* register is not in the running live set at the instruction; the sizes of
\* these dead definitions are in the instruction's own snapshot, on top of
\* the running demand and the late kills, and not in the running demand the
\* scan carries to the earlier instructions
C7_DeadDefinition ==
    Done => \A b \in BlockIds : \A i \in NonPhis(b) :
        /\ \A k \in TempDefs(Instructions(b)[i]) :
              Instructions(b)[i].definitions[k].isKill <=> k \in DeadDefs(b, i)
        /\ Snapshot(b, i)
           = DemandPlus(DemandPlus(DemandAfter(b, i), GenSizes(b, i, TRUE)),
                        SizeOfDefs(Instructions(b)[i], DeadDefs(b, i)))
        /\ DemandBefore(b, i)
           = [DemandMinus(DemandPlus(DemandAfter(b, i), GenSizes(b, i, FALSE)),
                          SizeOfDefs(Instructions(b)[i], LiveDefs(b, i)))
              EXCEPT !.sgpr = @ + MarkerShare(b, i)]

\* a dead definition stands before a later instruction and after an earlier
\* one: its size is in its own snapshot only
C7_Witness ==
    /\ Done
    /\ \E b \in BlockIds : \E i \in NonPhis(b) :
          /\ DeadDefs(b, i) # {}
          /\ \A k \in DeadDefs(b, i) : Instructions(b)[i].definitions[k].isKill
          /\ Snapshot(b, i) # DemandAfter(b, i)
          /\ DemandBefore(b, i) = DemandAfter(b, i)
          /\ (i - 1) \in NonPhis(b)

\* the predecessor list register t travels along is empty for block b
Unreached(b, t) == EdgesOf(b, t) = <<>>

\* one round of: t is defined on every path to the top of each block
DefinedRound(t, top) ==
    [b \in BlockIds |->
        IF Unreached(b, t) THEN b # 0
        ELSE \A j \in 1 .. Len(EdgesOf(b, t)) :
                top[EdgesOf(b, t)[j]] \/ DefPositions(EdgesOf(b, t)[j], t) # {}]

\* top[b]: t is defined on every path from block 0 to the top of block b
DefinedOnPaths(t, top) == \A b \in BlockIds : top[b] = DefinedRound(t, top)[b]

\* every read of t is preceded by a definition of t on every path from
\* block 0, given where t is defined at block tops
ReadsCovered(t, top) ==
    /\ \A b \in BlockIds : \A i \in ReadPositions(b, t) :
          top[b] \/ \E k \in DefPositions(b, t) : k < i
    /\ \A b \in BlockIds : \A p \in BlockIds :
          PhiReadsFrom(b, t, p) => (top[p] \/ DefPositions(p, t) # {})

\* every register read in the program is defined on every path from block
\* 0 before the read: the largest assignment of "defined at the top" that
\* the paths allow covers every read
DefinedBeforeRead ==
    \A t \in TempIds : \E top \in [BlockIds -> BOOLEAN] :
        /\ DefinedOnPaths(t, top)
        /\ \A other \in [BlockIds -> BOOLEAN] :
              DefinedOnPaths(t, other) => \A b \in BlockIds : other[b] => top[b]
        /\ ReadsCovered(t, top)

\* block 0 has no incoming edges
EntryHasNoPreds ==
    program.blocks[0].logical_preds = <<>> /\ program.blocks[0].linear_preds = <<>>

\* block 0 has the end-of-logical-region marker if logical phis of its
\* successors read scalar registers from it
EntryHasMarker == hist.scan[0].phi_in = 0 \/ HasLogicalEnd(program.blocks[0])

\* C6, amended: for a program whose block 0 has no incoming edges, in which
\* every register is defined before it is read on every path and block 0
\* ends its logical region with the marker, the live set at the top of block
\* 0 is empty and the demand there is zero; the live-out set of block 0 is
\* the set its successors ask for
C6_EntryInvariant ==
    (Done /\ EntryHasNoPreds /\ DefinedBeforeRead /\ EntryHasMarker) =>
        /\ hist.scan[0].live_in = {}
        /\ hist.scan[0].end_demand = ZeroDemand
        /\ lives.live_out[0] = Equations(lives.live_out)[0]

\* C6 as stated: for a program whose block 0 has no incoming edges, the
\* live-out set of block 0 is empty and its ending demand is zero
C6_Original ==
    (Done /\ EntryHasNoPreds) =>
        /\ lives.live_out[0] = {}
        /\ hist.scan[0].end_demand = ZeroDemand

\* block 0 defines a register that a successor reads: live out of block 0,
\* not live into it
C6_Witness ==
    /\ Done
    /\ EntryHasNoPreds
    /\ DefinedBeforeRead
    /\ EntryHasMarker
    /\ lives.live_out[0] # {}
    /\ hist.scan[0].live_in = {}
    /\ program.blocks[0].register_demand # ZeroDemand

----------------------------------------------------------------------------
(* The run after register allocation, checked under RaSpec *)

\* what the analysis must not touch from after_ra on
DemandFields(prog) ==
    <<[b \in BlockIds |-> prog.blocks[b].register_demand],
      prog.num_waves, prog.max_waves, prog.max_reg_demand>>

\* every instruction has its snapshot, and the definitions of the non-phi
\* instructions have the kill flag of the scan
Annotated ==
    \A b \in BlockIds :
        /\ Len(lives.register_demand[b]) = Len(Instructions(b))
        /\ \A i \in NonPhis(b) : \A k \in TempDefs(Instructions(b)[i]) :
              Instructions(b)[i].definitions[k].isKill <=> k \in DeadDefs(b, i)
        /\ \A i \in NonPhis(b) :
              Snapshot(b, i) = DemandPlus(DemandAfter(b, i),
                                          get_temp_registers(Instructions(b)[i]))

\* C11: with progress at after_ra, no step of live_var_analysis changes a
\* block's register_demand or the program's num_waves, max_waves and
\* max_reg_demand (the solver is not called), and at return the live-out
\* sets solve the liveness equations and snapshots and kill flags are
\* written
C11_AfterRaUnchanged ==
    /\ [][(pc = "run" /\ program.progress = "after_ra") =>
             DemandFields(program') = DemandFields(program)]_vars
    /\ []((Done /\ program.progress = "after_ra") =>
             (Solves(lives.live_out) /\ Annotated))

\* a run after register allocation has returned: a block with a register
\* live out of it and a nonzero snapshot kept the register_demand it had
C11_Witness ==
    /\ Done
    /\ program.progress = "after_ra"
    /\ \E b \in BlockIds :
          /\ lives.live_out[b] # {}
          /\ \E i \in NonPhis(b) : Snapshot(b, i) # ZeroDemand
          /\ program.blocks[b].register_demand = Prior.demand
    /\ program.num_waves = Prior.waves
    /\ program.max_reg_demand = Prior.demand

----------------------------------------------------------------------------
(* The per-block step as a function of the live-out set it starts from *)

\* the program is complete and no block has been processed, or the
\* analysis has returned and the flags are written
Settled == (pc = "run" /\ hist.steps = 0) \/ Done

\* C12: for every block and live-out inputs L1 subset of L2, everything
\* else equal, the (predecessor, register) insertions the per-block step
\* attempts on L2 include those it attempts on L1
C12_StepMonotone ==
    Settled => \A b \in BlockIds : \A L2 \in SUBSET TempIds : \A L1 \in SUBSET L2 :
                  StepAttempts(program, lives, phi_sgpr_ops, b, L1)
                  \subseteq StepAttempts(program, lives, phi_sgpr_ops, b, L2)

\* a larger live-out input makes the step of a block with a phi operand
\* attempt strictly more
C12_Witness ==
    /\ Settled
    /\ \E b \in BlockIds : \E L2 \in SUBSET TempIds :
          /\ HasPhi(program.blocks[b])
          /\ StepAttempts(program, lives, phi_sgpr_ops, b, {}) # {}
          /\ StepAttempts(program, lives, phi_sgpr_ops, b, {})
             # StepAttempts(program, lives, phi_sgpr_ops, b, L2)

----------------------------------------------------------------------------
(* The scalar allocation size, checked under OccSpec *)

\* the register counts get_sgpr_alloc is asked for: the peak demands and the
\* largest count a RegisterDemand holds
RequestedSgprs == SgprDemands \cup {127, 200, 32767}

\* m is the smallest multiple of granule that is at least least
SmallestMultiple(m, granule, least) ==
    m % granule = 0 /\ m >= least /\ m - granule < least

\* C13: get_sgpr_alloc(requested) is the smallest multiple of the sgpr
\* granule that is at least max(requested + extra sgprs, granule), and in
\* the feasible branch num_waves is at most
\* floor(physical_sgprs / get_sgpr_alloc(peak sgpr demand))
C13_SgprAlloc ==
    /\ \A requested \in RequestedSgprs :
          SmallestMultiple(get_sgpr_alloc(program, requested),
                           program.dev.sgpr_alloc_granule,
                           Max(requested + get_extra_sgprs(program),
                               program.dev.sgpr_alloc_granule))
    /\ (Returned /\ Feasible) =>
          program.num_waves
          <= program.dev.physical_sgprs \div get_sgpr_alloc(program, new_demand.sgpr)

\* the example of the claim: 800 physical sgprs, granule 16, 2 extra and a
\* demand of 100 give 112 and 7 waves
C13_Witness ==
    /\ Returned
    /\ Feasible
    /\ program.dev.physical_sgprs = 800
    /\ program.dev.sgpr_alloc_granule = 16
    /\ get_extra_sgprs(program) = 2
    /\ new_demand.sgpr = 100
    /\ get_sgpr_alloc(program, new_demand.sgpr) = 112
    /\ program.num_waves = 7

----------------------------------------------------------------------------
(* The worklist discipline, checked under Spec *)

\* block b has not been processed with the live-out set it has now
Stale(b) ==
    ~hist.scan[b].processed \/ lives.live_out[b] # hist.scan[b].live_out_in

\* C14: between two per-block steps every block that was never processed
\* or whose live-out set has grown since it was last processed is on the
\* worklist; so at return every block was last processed with its final
\* live-out set
C14_WorklistCoversStale ==
    /\ pc = "run" => \A b \in BlockIds : Stale(b) => b \in worklist
    /\ Done => \A b \in BlockIds : ~Stale(b)

\* a block that was processed is pending again because its live-out set
\* has gained a register
C14_Witness ==
    /\ pc = "run"
    /\ \E b \in BlockIds :
          /\ hist.scan[b].processed
          /\ hist.scan[b].live_out_in # lives.live_out[b]
          /\ b \in worklist

----------------------------------------------------------------------------
(* The kill flags against the final live-out sets, checked under Spec *)

\* the registers instruction insn reads (the marker reads none, line 125)
ReadsOf(insn) ==
    IF insn.opcode = "p_logical_end" THEN {}
    ELSE {insn.operands[j].tempId :
            j \in {j \in 1 .. Len(insn.operands) : insn.operands[j].isTemp}}

DefsOf(insn) == {insn.definitions[k].tempId : k \in TempDefs(insn)}

\* the registers live immediately after instruction i of block b, from the
\* live-out set out of the block
RECURSIVE LiveAfterFrom(_, _, _)
LiveAfterFrom(b, i, out) ==
    IF i >= Len(Instructions(b)) THEN out
    ELSE (LiveAfterFrom(b, i + 1, out) \ DefsOf(Instructions(b)[i + 1]))
            \cup ReadsOf(Instructions(b)[i + 1])

\* the register operands of the non-phi instructions of b other than the marker
KillOperands(b) ==
    {ij \in NonPhis(b) \X (1 .. MaxOperands) :
        /\ Instructions(b)[ij[1]].opcode # "p_logical_end"
        /\ ij[2] <= Len(Instructions(b)[ij[1]].operands)
        /\ Instructions(b)[ij[1]].operands[ij[2]].isTemp}

OperandAt(b, ij) == Instructions(b)[ij[1]].operands[ij[2]]

\* C15, amended: at return, a register operand of a non-phi instruction
\* other than the marker is a kill exactly when its register is not live
\* immediately after the instruction, as the final live-out set of the block
\* determines, or is defined by the instruction itself; a first kill is a kill
C15_KillIffDead ==
    Done => \A b \in BlockIds : \A ij \in KillOperands(b) :
        /\ OperandAt(b, ij).isKill
              <=> \/ OperandAt(b, ij).tempId \notin LiveAfterFrom(b, ij[1], lives.live_out[b])
                  \/ OperandAt(b, ij).tempId \in DefsOf(Instructions(b)[ij[1]])
        /\ OperandAt(b, ij).isFirstKill => OperandAt(b, ij).isKill

\* C15 as stated: a kill exactly when the register is not live after the
\* instruction
C15_Original ==
    Done => \A b \in BlockIds : \A ij \in KillOperands(b) :
        OperandAt(b, ij).isKill
            <=> OperandAt(b, ij).tempId \notin LiveAfterFrom(b, ij[1], lives.live_out[b])

\* an operand that an earlier pass over its block had flagged as a kill is
\* no kill at return, its register being live out of the block
C15_Witness ==
    /\ Done
    /\ \E b \in BlockIds : \E ij \in KillOperands(b) :
          /\ ij \in hist.scan[b].kills_in
          /\ ~OperandAt(b, ij).isKill
          /\ OperandAt(b, ij).tempId \in lives.live_out[b]

----------------------------------------------------------------------------
(* The peak demand handed to update_vgpr_sgpr_demand, checked under Spec *)

\* the pointwise maximum of the register_demand of the blocks 0 .. b
RECURSIVE PeakOfBlocks(_)
PeakOfBlocks(b) ==
    IF b < 0 THEN ZeroDemand
    ELSE DemandUpdate(PeakOfBlocks(b - 1), program.blocks[b].register_demand)

\* the scalar registers that logical phis of the successors of p read from p
LogicalPhiFeeds(p) ==
    {t \in {t \in TempIds : temp_rc[t].type = "sgpr"} :
        \E c \in BlockIds : \E i \in 1 .. Len(Instructions(c)) :
            /\ Instructions(c)[i].opcode = "p_phi"
            /\ \E k \in 1 .. Len(program.blocks[c].logical_preds) :
                  /\ program.blocks[c].logical_preds[k] = p
                  /\ Instructions(c)[i].operands[k].isTemp
                  /\ Instructions(c)[i].operands[k].tempId = t}

\* the position of the marker in block b, 0 without one
MarkerPos(b) ==
    IF HasLogicalEnd(program.blocks[b])
    THEN CHOOSE i \in 1 .. Len(Instructions(b)) : Instructions(b)[i].opcode = "p_logical_end"
    ELSE 0

\* every block that feeds a scalar register to a logical phi holds the
\* marker and does not define the register after the marker
MarkerCovers ==
    \A p \in BlockIds : \A t \in LogicalPhiFeeds(p) :
        /\ MarkerPos(p) > 0
        /\ \A i \in (MarkerPos(p) + 1) .. Len(Instructions(p)) : ~Defines(Instructions(p)[i], t)

\* C16, amended: when the blocks feeding scalar registers to logical phis
\* hold the marker and define these registers before it, the demand
\* live_var_analysis hands to update_vgpr_sgpr_demand is the pointwise
\* maximum over all blocks of the register_demand the last processing of the
\* block wrote
C16_PeakOfFinal ==
    (Done /\ program.progress = "before_ra" /\ MarkerCovers)
        => new_demand = PeakOfBlocks(NumBlocks - 1)

\* C16 as stated, for every program
C16_Original ==
    (Done /\ program.progress = "before_ra") => new_demand = PeakOfBlocks(NumBlocks - 1)

\* a block that feeds a scalar register to a logical phi, holding the marker,
\* was processed again after its first pass and the peak is not zero
C16_Witness ==
    /\ Done
    /\ program.progress = "before_ra"
    /\ MarkerCovers
    /\ hist.steps > NumBlocks
    /\ \E p \in BlockIds : LogicalPhiFeeds(p) # {} /\ phi_sgpr_ops[p] > 0
    /\ new_demand.sgpr > 0

----------------------------------------------------------------------------
(* The assertion of line 238 at every processing of block 0, checked under  *)
(* DrawnSpec                                                                *)

EntryHasNoPhis == ~HasPhi(program.blocks[0])

\* what the assertion of line 238 asks of the last processing of block 0
EntryAssertion ==
    hist.scan[0].live_in = {} /\ hist.scan[0].end_demand = ZeroDemand

\* C17, amended: in a program where block 0 has no predecessors and no phis,
\* every register read is defined on every path from block 0 before the
\* read, and block 0 holds the marker if it feeds a scalar register to a
\* logical phi, every processing of block 0 ends with an empty running live
\* set and a running demand of zero
C17_EntryAssertion ==
    (/\ hist.scan[0].processed
     /\ EntryHasNoPreds /\ EntryHasNoPhis /\ DefinedBeforeRead
     /\ (LogicalPhiFeeds(0) = {} \/ HasLogicalEnd(program.blocks[0])))
        => EntryAssertion

\* C17 as stated, without the condition on the marker
C17_Original ==
    (hist.scan[0].processed /\ EntryHasNoPreds /\ EntryHasNoPhis /\ DefinedBeforeRead)
        => EntryAssertion

\* block 0 defines a scalar register before its marker, a logical phi of
\* block 1 reads it, and block 0 has been processed
C17_Witness ==
    /\ hist.scan[0].processed
    /\ EntryHasNoPreds /\ EntryHasNoPhis /\ DefinedBeforeRead
    /\ LogicalPhiFeeds(0) # {}
    /\ HasLogicalEnd(program.blocks[0])
    /\ hist.scan[0].phi_in > 0
    /\ program.blocks[0].register_demand # ZeroDemand

----------------------------------------------------------------------------
(* The running demand against the running live set, checked under DrawnSpec *)

\* the summed sizes of the registers of S among 1 .. t that have type ty
RECURSIVE SizesUpTo(_, _, _)
SizesUpTo(S, ty, t) ==
    IF t = 0 THEN 0
    ELSE SizesUpTo(S, ty, t - 1)
            + (IF t \in S /\ temp_rc[t].type = ty THEN temp_rc[t].size ELSE 0)

ClassSizes(S) ==
    [vgpr |-> SizesUpTo(S, "vgpr", NumTemps), sgpr |-> SizesUpTo(S, "sgpr", NumTemps)]

\* the scan of block b, going backwards, has not crossed the marker when it
\* takes the snapshot of instruction i
MarkerAhead(b, i) == i >= MarkerPos(b)

\* the points of the last scan of block b: <<running live set, running
\* demand, marker not yet crossed>> at every snapshot and at the end
ScanPoints(b) ==
    {<<hist.scan[b].liveAt[i], hist.scan[b].demandAt[i], MarkerAhead(b, i)>> : i \in NonPhis(b)}
        \cup {<<hist.scan[b].live_in, hist.scan[b].end_demand, MarkerPos(b) = 0>>}

\* the running demand that the live set live accounts for
DemandOfLive(b, live, ahead) ==
    [ClassSizes(live) EXCEPT !.sgpr = @ - (IF ahead THEN hist.scan[b].phi_in ELSE 0)]

\* block b defines, past its marker in the direction of the scan start (or
\* anywhere without a marker), a scalar register that a logical phi of a
\* successor reads from it
DefinesFedPastMarker(b) ==
    \E t \in LogicalPhiFeeds(b) : \E i \in (MarkerPos(b) + 1) .. Len(Instructions(b)) :
        ~is_phi(Instructions(b)[i]) /\ Defines(Instructions(b)[i], t)

NonNegative(d) == d.vgpr >= 0 /\ d.sgpr >= 0

\* C18, amended: at every point of the backward scan of a block the running
\* demand is the summed sizes of the running live set, minus the logical-phi
\* scalar count while the marker is not crossed; and no component is
\* negative unless the block defines a register a logical phi reads from it
\* after its marker
C18_DemandOfLiveSet ==
    \A b \in BlockIds : hist.scan[b].processed =>
        \A pt \in ScanPoints(b) :
            /\ pt[2] = DemandOfLive(b, pt[1], pt[3])
            /\ ~DefinesFedPastMarker(b) => NonNegative(pt[2])

\* C18 as stated: the equation, and no component is ever negative
C18_Original ==
    \A b \in BlockIds : hist.scan[b].processed =>
        \A pt \in ScanPoints(b) :
            /\ pt[2] = DemandOfLive(b, pt[1], pt[3])
            /\ NonNegative(pt[2])

\* a block with a logical-phi scalar count and the marker has points before
\* and after the crossing with registers live
C18_Witness ==
    \E b \in BlockIds :
        /\ hist.scan[b].processed
        /\ hist.scan[b].phi_in > 0
        /\ ~DefinesFedPastMarker(b)
        /\ \E i \in NonPhis(b) : \E j \in NonPhis(b) :
              /\ i < MarkerPos(b) /\ MarkerPos(b) < j
              /\ hist.scan[b].liveAt[i] # {}
              /\ hist.scan[b].liveAt[j] # {}

----------------------------------------------------------------------------
(* get_demand_before against the recorded snapshots, checked under Spec *)

\* the positions i of block b with instructions i - 1 and i both non-phi and
\* instruction i not the marker
ConsecutivePairs(b) ==
    {i \in NonPhis(b) : (i - 1) \in NonPhis(b) /\ Instructions(b)[i].opcode # "p_logical_end"}

\* C19: at return, for consecutive non-phi instructions i - 1 and i of a
\* block, i not the marker, get_demand_before of the snapshot of i, evaluated
\* on the flags the analysis wrote, is the snapshot of i - 1
C19_DemandBeforeAgrees ==
    Done => \A b \in BlockIds : \A i \in ConsecutivePairs(b) :
        get_demand_before(Snapshot(b, i), Instructions(b)[i], TRUE, Instructions(b)[i - 1])
            = Snapshot(b, i - 1)

\* a pair where the instruction before holds a register only it needs and
\* the instruction changes the live set, so that the two snapshots differ
C19_Witness ==
    /\ Done
    /\ \E b \in BlockIds : \E i \in ConsecutivePairs(b) :
          /\ get_temp_registers(Instructions(b)[i - 1]) # ZeroDemand
          /\ get_live_changes(Instructions(b)[i]) # ZeroDemand
          /\ Snapshot(b, i) # Snapshot(b, i - 1)

----------------------------------------------------------------------------
(* The registers counted in phi_sgpr_ops, checked under DrawnSpec *)

\* a linear phi of block c reads t from its predecessor p
LinearPhiReadsFrom(c, t, p) ==
    \E i \in 1 .. Len(Instructions(c)) :
        /\ Instructions(c)[i].opcode = "p_linear_phi"
        /\ \E k \in 1 .. Len(program.blocks[c].linear_preds) :
              /\ program.blocks[c].linear_preds[k] = p
              /\ k \in Occurrences(Instructions(c)[i], t)

\* the liveness equations without the reads of logical phis: what the
\* live-out sets out ask for through ordinary reads and linear phis
OrdinaryEquations(out) ==
    [p \in BlockIds |->
        {t \in TempIds : \E c \in BlockIds :
            \/ LiveInto(c, t, out[c]) /\ InSeq(p, EdgesOf(c, t))
            \/ LinearPhiReadsFrom(c, t, p)}]

OrdinaryClosed(out) == \A p \in BlockIds : OrdinaryEquations(out)[p] \subseteq out[p]

\* t is live out of p for another reason than a logical phi: an ordinary
\* read or a linear phi reads it on some path from the end of p before any
\* definition (t is in every assignment closed under OrdinaryEquations)
OtherwiseLiveOut(p, t) ==
    \A out \in [BlockIds -> SUBSET TempIds] : OrdinaryClosed(out) => t \in out[p]

\* the scalar registers live out of p for logical phis only
OnlyForLogicalPhis(p) == {t \in LogicalPhiFeeds(p) : ~OtherwiseLiveOut(p, t)}

\* C20 as stated: a register whose size phi_sgpr_ops of a block includes is
\* live out of the block for logical phis of the successors only; so at return the
\* count of a block is the summed sizes of the scalar registers live out of
\* it for logical phis only, whatever the order of the steps was
C20_CountedOnlyForPhis ==
    /\ \A p \in BlockIds : \A t \in hist.counted[p] : ~OtherwiseLiveOut(p, t)
    /\ Done => \A p \in BlockIds :
          phi_sgpr_ops[p] = ClassSizes(OnlyForLogicalPhis(p)).sgpr

====
